---- MODULE Spec2Model ----
(***************************************************************************)
(* Control flow of ref-conv.py: main() drives `epochs` passes of train()   *)
(* followed by test() and scheduler.step(), with an optional checkpoint    *)
(* restore before the loop and an optional save after it.                  *)
(*                                                                         *)
(* The network, the data and the loss values are opaque: the parameter set *)
(* is a version stamped by its last writer, a training loss is identified  *)
(* by the batch it was computed on, and the scores the network returns for *)
(* a test example are drawn from a small set.  Rational numbers (learning  *)
(* rate, percentages, mean loss) are pairs <<numerator, denominator>>.     *)
(* Framework calls are taken to succeed (data set present, checkpoint      *)
(* readable); the one failure kept is the TypeError of Tensor.numpy() on a *)
(* CUDA tensor, which the code's own device choice can produce.            *)
(***************************************************************************)
EXTENDS Integers, Sequences, FiniteSets, TLC

\* ------------------------------------------------------------- bounds
MaxEpochs == 2
MaxTrain == 3
MaxBatch == 2
MaxLogInterval == 2
MaxTest == 2
MaxTestBatch == 2
NumClasses == 2

\* ------------------------------------------------------------- values
Classes == 0 .. (NumClasses - 1)
ScoreVals == {-1, 1}
ScoreVecs == [Classes -> ScoreVals]
Examples == [scores : ScoreVecs, target : Classes]

LossNames == {"CE", "MSE", "L1"}
Devices == {"cpu", "cuda"}
CkptPaths == {"None", "mnist_cnn.pth"}
LrValues == {<<1, 10>>, <<1, 2>>}

Gamma == <<7, 10>>

NoLoss == [fn |-> "none", target |-> "none", epoch |-> 0, batch_idx |-> 0]
NoReport == [loss |-> <<0, 1>>, correct |-> 0, total |-> 0, pct |-> <<0, 1>>]
InitParams == [version |-> 0, writer |-> "init", lr |-> <<0, 1>>, grads |-> 0, epoch |-> 0]

VARIABLES
    FLAGS,        \* parsed command line
    device,       \* torch.device chosen in main
    train_len,    \* len(train_loader.dataset)
    test_len,     \* len(test_loader.dataset)
    pc,           \* position of the single thread of control
    epoch,        \* loop variable of main
    params,       \* model parameters (state_dict)
    mode,         \* model.training: "train" / "eval"
    grad,         \* number of backward passes summed in the .grad buffers
    grad_enabled, \* torch.no_grad() scope
    lr,           \* optimizer.param_groups[0]['lr']
    last_epoch,   \* scheduler.last_epoch
    batch_idx,    \* enumerate index of the current training batch
    yielded,      \* batches the training iterator has yielded this epoch
    fetched,      \* examples the training iterator has yielded this epoch
    data,         \* len(data) of the current training batch
    output,       \* whether model(data) is available
    loss_,        \* loss of the current batch
    tmp_loss,     \* train()'s sampled losses
    loss_values,  \* main()'s accumulated samples
    progress,     \* the progress lines printed by train()
    test_set,     \* the examples the test iterator yields in this pass
    test_fetched, \* examples the test iterator has yielded in this pass
    test_loss,    \* test()'s accumulator
    correct,      \* test()'s accumulator
    report,       \* the last line printed by test()
    saved,        \* what torch.save wrote
    plotted,      \* what plt.plot drew
    ckptLog,      \* history: checkpoint actions
    batchOps,     \* history: operations applied to the current batch
    epochSteps,   \* history: optimizer steps of the current epoch
    optSteps,     \* history: optimizer steps of the run
    trace         \* history: completed passes and scheduler steps

config == <<FLAGS, device, train_len, test_len>>
modelv == <<params, mode, grad, grad_enabled, lr, last_epoch>>
trainv == <<batch_idx, yielded, fetched, data, output, loss_, tmp_loss>>
testv  == <<test_set, test_fetched, test_loss, correct, report>>
outv   == <<loss_values, progress, saved, plotted>>
histv  == <<ckptLog, batchOps, epochSteps, optSteps, trace>>
vars == <<config, pc, epoch, modelv, trainv, testv, outv, histv>>

\* ------------------------------------------------------------- helpers
Min(a, b) == IF a < b THEN a ELSE b

CeilDiv(a, b) == (a + b - 1) \div b

RECURSIVE Pow(_, _)
Pow(b, e) == IF e = 0 THEN 1 ELSE b * Pow(b, e - 1)

\* len(train_loader): batches of a DataLoader that keeps the last short batch
LoaderLen == CeilDiv(train_len, FLAGS.train_batch_size)

\* `if FLAGS.start_checkpoint:` with the default None
Truthy(path) == path # "None"

\* ------------------------------------------------------------- pure steps
\* Lines 61-70: the loss function and the target encoding train() picks;
\* target.numpy() raises TypeError when the target lives on a CUDA device.
LossSelect(loss, dev) ==
    IF loss = "CE"
    THEN [fn |-> "CE", target |-> "int"]
    ELSE IF dev = "cuda"
         THEN [fn |-> "TypeError", target |-> "int"]
         ELSE [fn |-> "MSE", target |-> "onehot"]

\* output.argmax(dim=1): the first index holding the maximum
Argmax(scores) ==
    CHOOSE c \in Classes :
        /\ \A d \in Classes : scores[d] <= scores[c]
        /\ \A d \in Classes : d < c => scores[d] < scores[c]

\* F.nll_loss(output, target, reduction='sum') of examples lo..hi: the
\* negated score of each example's target class, summed
RECURSIVE NllLossSum(_, _, _)
NllLossSum(set, lo, hi) ==
    IF lo > hi
    THEN 0
    ELSE (0 - set[lo].scores[set[lo].target]) + NllLossSum(set, lo + 1, hi)

\* pred.eq(target.view_as(pred)).sum() of examples lo..hi
RECURSIVE CorrectSum(_, _, _)
CorrectSum(set, lo, hi) ==
    IF lo > hi
    THEN 0
    ELSE (IF Argmax(set[lo].scores) = set[lo].target THEN 1 ELSE 0)
            + CorrectSum(set, lo + 1, hi)

\* Decay that takes 70% off the rate instead of leaving 70% of it
Decay_off(rate) == <<rate[1] * (Gamma[2] - Gamma[1]), rate[2] * Gamma[2]>>

\* StepLR(step_size=1).step(): the rate times gamma
Decay(rate) == <<rate[1] * Gamma[1], rate[2] * Gamma[2]>>

\* the progress line of lines 79-81
ProgressRecord ==
    [epoch     |-> epoch,
     batch_idx |-> batch_idx,
     seen      |-> batch_idx * data,
     total     |-> train_len,
     pct       |-> <<100 * batch_idx, LoaderLen>>,
     loss      |-> loss_]

\* ------------------------------------------------------------- Init
FlagSets(epochs, tbs, tstbs, losses, lrs, lis, ckpts, saves) ==
    [epochs           : epochs,
     train_batch_size : tbs,
     test_batch_size  : tstbs,
     loss_fn          : losses,
     lr               : lrs,
     log_interval     : lis,
     start_checkpoint : ckpts,
     save_model       : saves]

\* every training configuration, on a one-example test set
InitTraining ==
    /\ FLAGS \in FlagSets(0 .. MaxEpochs, 1 .. MaxBatch, {1}, LossNames, LrValues,
                          1 .. MaxLogInterval, CkptPaths, BOOLEAN)
    /\ device \in Devices
    /\ train_len \in 1 .. MaxTrain
    /\ test_len = 1

\* every test configuration, on the default one-epoch training run
InitEvaluation ==
    /\ FLAGS \in FlagSets({1}, {1}, 1 .. MaxTestBatch, {"CE"}, {<<1, 10>>},
                          {1}, {"None"}, {FALSE})
    /\ device = "cpu"
    /\ train_len = 1
    /\ test_len \in 1 .. MaxTest

Init ==
    /\ InitTraining \/ InitEvaluation
    /\ pc = "start"
    /\ epoch = 0
    /\ params = InitParams
    /\ mode = "train"
    /\ grad = 0
    /\ grad_enabled = TRUE
    /\ lr = FLAGS.lr
    /\ last_epoch = 0
    /\ batch_idx = 0
    /\ yielded = 0
    /\ fetched = 0
    /\ data = 0
    /\ output = FALSE
    /\ loss_ = NoLoss
    /\ tmp_loss = <<>>
    /\ loss_values = <<>>
    /\ progress = <<>>
    /\ test_set = <<>>
    /\ test_fetched = 0
    /\ test_loss = 0
    /\ correct = 0
    /\ report = NoReport
    /\ saved = InitParams
    /\ plotted = <<>>
    /\ ckptLog = <<>>
    /\ batchOps = <<>>
    /\ epochSteps = 0
    /\ optSteps = 0
    /\ trace = <<>>

\* ------------------------------------------------------------- main()
\* lines 143-145
LoadCheckpoint ==
    /\ pc = "start"
    /\ IF Truthy(FLAGS.start_checkpoint)
       THEN /\ params' = [version |-> params.version + 1, writer |-> "restore",
                          lr |-> <<0, 1>>, grads |-> 0, epoch |-> 0]
            /\ ckptLog' = Append(ckptLog, [kind |-> "restore", epoch |-> epoch,
                                           optSteps |-> optSteps, passes |-> Len(trace)])
       ELSE UNCHANGED <<params, ckptLog>>
    /\ pc' = "epoch_loop"
    /\ UNCHANGED <<config, epoch, mode, grad, grad_enabled, lr, last_epoch,
                   trainv, testv, outv, batchOps, epochSteps, optSteps, trace>>

\* EpochLoop with the fencepost slip range(1, epochs)
EpochLoop_short ==
    /\ pc = "epoch_loop"
    /\ IF epoch + 1 < FLAGS.epochs
       THEN /\ epoch' = epoch + 1
            /\ pc' = "train"
       ELSE /\ epoch' = epoch
            /\ pc' = "save"
    /\ UNCHANGED <<config, modelv, trainv, testv, outv, histv>>

\* line 153: for epoch in range(1, epochs + 1)
EpochLoop ==
    /\ pc = "epoch_loop"
    /\ IF epoch < FLAGS.epochs
       THEN /\ epoch' = epoch + 1
            /\ pc' = "train"
       ELSE /\ epoch' = epoch
            /\ pc' = "save"
    /\ UNCHANGED <<config, modelv, trainv, testv, outv, histv>>

\* line 157
SchedulerStep ==
    /\ pc = "sched"
    /\ last_epoch' = last_epoch + 1
    /\ lr' = Decay(lr)
    /\ trace' = Append(trace, "sched")
    /\ pc' = "epoch_loop"
    /\ UNCHANGED <<config, epoch, params, mode, grad, grad_enabled,
                   trainv, testv, outv, ckptLog, batchOps, epochSteps, optSteps>>

\* SaveModel that ignores the save_model flag
SaveModel_always ==
    /\ pc = "save"
    /\ saved' = params
    /\ ckptLog' = Append(ckptLog, [kind |-> "save", epoch |-> epoch,
                                   optSteps |-> optSteps, passes |-> Len(trace)])
    /\ pc' = "plot"
    /\ UNCHANGED <<config, epoch, modelv, trainv, testv, loss_values, progress,
                   plotted, batchOps, epochSteps, optSteps, trace>>

\* lines 159-160
SaveModel ==
    /\ pc = "save"
    /\ IF FLAGS.save_model
       THEN /\ saved' = params
            /\ ckptLog' = Append(ckptLog, [kind |-> "save", epoch |-> epoch,
                                           optSteps |-> optSteps, passes |-> Len(trace)])
       ELSE UNCHANGED <<saved, ckptLog>>
    /\ pc' = "plot"
    /\ UNCHANGED <<config, epoch, modelv, trainv, testv, loss_values, progress,
                   plotted, batchOps, epochSteps, optSteps, trace>>

\* lines 162-175
Plot ==
    /\ pc = "plot"
    /\ plotted' = loss_values
    /\ pc' = "done"
    /\ UNCHANGED <<config, epoch, modelv, trainv, testv, loss_values, progress,
                   saved, histv>>

\* ------------------------------------------------------------- train()
\* lines 51-53
TrainEnter ==
    /\ pc = "train"
    /\ mode' = "train"
    /\ tmp_loss' = <<>>
    /\ yielded' = 0
    /\ fetched' = 0
    /\ epochSteps' = 0
    /\ pc' = "next_batch"
    /\ UNCHANGED <<config, epoch, params, grad, grad_enabled, lr, last_epoch,
                   batch_idx, data, output, loss_, testv, outv,
                   ckptLog, batchOps, optSteps, trace>>

\* line 55: the iterator yields the next batch, the last one possibly short
NextBatch ==
    /\ pc = "next_batch"
    /\ IF fetched < train_len
       THEN /\ batch_idx' = yielded
            /\ yielded' = yielded + 1
            /\ data' = Min(FLAGS.train_batch_size, train_len - fetched)
            /\ fetched' = fetched + Min(FLAGS.train_batch_size, train_len - fetched)
            /\ output' = FALSE
            /\ loss_' = NoLoss
            /\ batchOps' = <<>>
            /\ pc' = "zero_grad"
       ELSE /\ pc' = "train_return"
            /\ UNCHANGED <<batch_idx, yielded, data, fetched, output, loss_, batchOps>>
    /\ UNCHANGED <<config, epoch, modelv, tmp_loss, testv, outv,
                   ckptLog, epochSteps, optSteps, trace>>

\* ZeroGrad that leaves the .grad buffers as they are
ZeroGrad_keep ==
    /\ pc = "zero_grad"
    /\ grad' = grad
    /\ batchOps' = Append(batchOps, "zero_grad")
    /\ pc' = "forward"
    /\ UNCHANGED <<config, epoch, params, mode, grad_enabled, lr, last_epoch,
                   trainv, testv, outv, ckptLog, epochSteps, optSteps, trace>>

\* line 58
ZeroGrad ==
    /\ pc = "zero_grad"
    /\ grad' = 0
    /\ batchOps' = Append(batchOps, "zero_grad")
    /\ pc' = "forward"
    /\ UNCHANGED <<config, epoch, params, mode, grad_enabled, lr, last_epoch,
                   trainv, testv, outv, ckptLog, epochSteps, optSteps, trace>>

\* line 59
Forward ==
    /\ pc = "forward"
    /\ output' = TRUE
    /\ batchOps' = Append(batchOps, "forward")
    /\ pc' = "loss"
    /\ UNCHANGED <<config, epoch, modelv, batch_idx, yielded, fetched, data, loss_,
                   tmp_loss, testv, outv, ckptLog, epochSteps, optSteps, trace>>

\* lines 61-73
ComputeLoss ==
    /\ pc = "loss"
    /\ LET sel == LossSelect(FLAGS.loss_fn, device)
       IN  IF sel.fn = "TypeError"
           THEN /\ pc' = "error"
                /\ UNCHANGED <<loss_, batchOps>>
           ELSE /\ loss_' = [fn |-> sel.fn, target |-> sel.target,
                             epoch |-> epoch, batch_idx |-> batch_idx]
                /\ batchOps' = Append(batchOps, "loss")
                /\ pc' = "backward"
    /\ UNCHANGED <<config, epoch, modelv, batch_idx, yielded, fetched, data, output,
                   tmp_loss, testv, outv, ckptLog, epochSteps, optSteps, trace>>

\* line 74: backward() adds into the .grad buffers
Backward ==
    /\ pc = "backward"
    /\ grad' = grad + 1
    /\ batchOps' = Append(batchOps, "backward")
    /\ pc' = "opt_step"
    /\ UNCHANGED <<config, epoch, params, mode, grad_enabled, lr, last_epoch,
                   trainv, testv, outv, ckptLog, epochSteps, optSteps, trace>>

\* line 75: SGD writes the parameters from the .grad buffers and the rate
OptimizerStep ==
    /\ pc = "opt_step"
    /\ params' = [version |-> params.version + 1, writer |-> "optimizer",
                  lr |-> lr, grads |-> grad, epoch |-> epoch]
    /\ batchOps' = Append(batchOps, "step")
    /\ epochSteps' = epochSteps + 1
    /\ optSteps' = optSteps + 1
    /\ pc' = "log"
    /\ UNCHANGED <<config, epoch, mode, grad, grad_enabled, lr, last_epoch,
                   trainv, testv, outv, ckptLog, trace>>

\* Log that samples the last batch of every interval instead of the first
Log_last ==
    /\ pc = "log"
    /\ IF (batch_idx + 1) % FLAGS.log_interval = 0
       THEN /\ progress' = Append(progress, ProgressRecord)
            /\ tmp_loss' = Append(tmp_loss, loss_)
       ELSE UNCHANGED <<progress, tmp_loss>>
    /\ pc' = "next_batch"
    /\ UNCHANGED <<config, epoch, modelv, batch_idx, yielded, fetched, data, output,
                   loss_, testv, loss_values, saved, plotted, histv>>

\* lines 78-82
Log ==
    /\ pc = "log"
    /\ IF batch_idx % FLAGS.log_interval = 0
       THEN /\ progress' = Append(progress, ProgressRecord)
            /\ tmp_loss' = Append(tmp_loss, loss_)
       ELSE UNCHANGED <<progress, tmp_loss>>
    /\ pc' = "next_batch"
    /\ UNCHANGED <<config, epoch, modelv, batch_idx, yielded, fetched, data, output,
                   loss_, testv, loss_values, saved, plotted, histv>>

\* lines 84 and 155: return tmp_loss; loss_values.extend(_)
TrainReturn ==
    /\ pc = "train_return"
    /\ loss_values' = loss_values \o tmp_loss
    /\ trace' = Append(trace, "train")
    /\ pc' = "test"
    /\ UNCHANGED <<config, epoch, modelv, trainv, testv, progress, saved, plotted,
                   ckptLog, batchOps, epochSteps, optSteps>>

\* ------------------------------------------------------------- test()
\* lines 89-93; the pass's examples are the shuffled test set with the scores
\* the current parameters give them
TestEnter ==
    /\ pc = "test"
    /\ mode' = "eval"
    /\ test_loss' = 0
    /\ correct' = 0
    /\ grad_enabled' = FALSE
    /\ test_fetched' = 0
    /\ test_set' \in [1 .. test_len -> Examples]
    /\ pc' = "test_batch"
    /\ UNCHANGED <<config, epoch, params, grad, lr, last_epoch, trainv, report,
                   outv, histv>>

\* TestBatch with a stray optimizer step in the evaluation loop
TestBatch_step ==
    /\ pc = "test_batch"
    /\ IF test_fetched < test_len
       THEN LET n == Min(FLAGS.test_batch_size, test_len - test_fetched)
            IN  /\ test_loss' = test_loss + NllLossSum(test_set, test_fetched + 1, test_fetched + n)
                /\ correct' = correct + CorrectSum(test_set, test_fetched + 1, test_fetched + n)
                /\ test_fetched' = test_fetched + n
                /\ params' = [version |-> params.version + 1, writer |-> "optimizer",
                              lr |-> lr, grads |-> grad, epoch |-> epoch]
                /\ UNCHANGED <<pc, grad_enabled>>
       ELSE /\ grad_enabled' = TRUE
            /\ pc' = "test_report"
            /\ UNCHANGED <<test_loss, correct, test_fetched, params>>
    /\ UNCHANGED <<config, epoch, mode, grad, lr, last_epoch, trainv,
                   test_set, report, outv, histv>>

\* TestBatch that keeps only the last batch's count of correct predictions
TestBatch_overwrite ==
    /\ pc = "test_batch"
    /\ IF test_fetched < test_len
       THEN LET n == Min(FLAGS.test_batch_size, test_len - test_fetched)
            IN  /\ test_loss' = test_loss + NllLossSum(test_set, test_fetched + 1, test_fetched + n)
                /\ correct' = CorrectSum(test_set, test_fetched + 1, test_fetched + n)
                /\ test_fetched' = test_fetched + n
                /\ UNCHANGED <<pc, grad_enabled>>
       ELSE /\ grad_enabled' = TRUE
            /\ pc' = "test_report"
            /\ UNCHANGED <<test_loss, correct, test_fetched>>
    /\ UNCHANGED <<config, epoch, params, mode, grad, lr, last_epoch, trainv,
                   test_set, report, outv, histv>>

\* lines 94-101, one batch per step; leaving the loop leaves the no_grad scope
TestBatch ==
    /\ pc = "test_batch"
    /\ IF test_fetched < test_len
       THEN LET n == Min(FLAGS.test_batch_size, test_len - test_fetched)
            IN  /\ test_loss' = test_loss + NllLossSum(test_set, test_fetched + 1, test_fetched + n)
                /\ correct' = correct + CorrectSum(test_set, test_fetched + 1, test_fetched + n)
                /\ test_fetched' = test_fetched + n
                /\ UNCHANGED <<pc, grad_enabled>>
       ELSE /\ grad_enabled' = TRUE
            /\ pc' = "test_report"
            /\ UNCHANGED <<test_loss, correct, test_fetched>>
    /\ UNCHANGED <<config, epoch, params, mode, grad, lr, last_epoch, trainv,
                   test_set, report, outv, histv>>

\* lines 103-106
TestReport ==
    /\ pc = "test_report"
    /\ report' = [loss    |-> <<test_loss, test_len>>,
                  correct |-> correct,
                  total   |-> test_len,
                  pct     |-> <<100 * correct, test_len>>]
    /\ pc' = "test_return"
    /\ UNCHANGED <<config, epoch, modelv, trainv, test_set, test_fetched, test_loss,
                   correct, outv, histv>>

\* test() returns to line 157; its locals go out of scope
TestReturn ==
    /\ pc = "test_return"
    /\ test_set' = <<>>
    /\ test_fetched' = 0
    /\ test_loss' = 0
    /\ correct' = 0
    /\ trace' = Append(trace, "test")
    /\ pc' = "sched"
    /\ UNCHANGED <<config, epoch, modelv, trainv, report, outv,
                   ckptLog, batchOps, epochSteps, optSteps>>

\* ------------------------------------------------------------- specification
Next ==
    \/ LoadCheckpoint
    \/ EpochLoop
    \/ TrainEnter
    \/ NextBatch
    \/ ZeroGrad
    \/ Forward
    \/ ComputeLoss
    \/ Backward
    \/ OptimizerStep
    \/ Log
    \/ TrainReturn
    \/ TestEnter
    \/ TestBatch
    \/ TestReport
    \/ TestReturn
    \/ SchedulerStep
    \/ SaveModel
    \/ Plot

Spec == Init /\ [][Next]_vars

\* ------------------------------------------------------------- properties
TrainPcs == {"train", "next_batch", "zero_grad", "forward", "loss", "backward",
             "opt_step", "log", "train_return"}
TestPcs == {"test", "test_batch", "test_report", "test_return"}
AfterLoop == {"save", "plot", "done"}

Count(seq, x) == Cardinality({i \in DOMAIN seq : seq[i] = x})

\* epochs whose training, evaluation and scheduler step are all done
CompletedEpochs ==
    IF pc \in {"start", "epoch_loop"} \cup AfterLoop THEN epoch ELSE epoch - 1

\* rate = FLAGS.lr * 0.7^k, as an equation between integers
LrIs(rate, k) ==
    rate[1] * FLAGS.lr[2] * Pow(10, k) = FLAGS.lr[1] * Pow(7, k) * rate[2]

EpochPattern == <<"train", "test", "sched">>

\* C1: a run that leaves the epoch loop has performed exactly `epochs` training
\* passes, `epochs` evaluation passes and `epochs` scheduler steps, in the
\* order train, test, scheduler step within each epoch; an evaluation or a
\* scheduler step starts only when every training batch of the epoch has been
\* fetched and stepped.
C1_EpochOrder ==
    /\ \A i \in 1 .. Len(trace) : trace[i] = EpochPattern[((i - 1) % 3) + 1]
    /\ pc \in AfterLoop =>
          /\ Count(trace, "train") = FLAGS.epochs
          /\ Count(trace, "test") = FLAGS.epochs
          /\ Count(trace, "sched") = FLAGS.epochs
    /\ pc \in TrainPcs => Len(trace) = 3 * (epoch - 1)
    /\ pc \in TestPcs =>
          /\ Len(trace) = 3 * (epoch - 1) + 1
          /\ fetched = train_len
          /\ epochSteps = yielded
    /\ pc = "sched" =>
          /\ Len(trace) = 3 * (epoch - 1) + 2
          /\ fetched = train_len
          /\ epochSteps = yielded

C1_Witness ==
    /\ pc = "done"
    /\ FLAGS.epochs = 2
    /\ train_len = 3
    /\ trace = <<"train", "test", "sched", "train", "test", "sched">>

\* C2: every training batch goes through zero_grad, forward, loss, backward
\* and one optimizer step, in that order; a batch's gradient clearing starts
\* only when every earlier batch has been stepped; an optimizer step always
\* consumes the gradient of exactly one backward pass; an epoch performs
\* ceil(N / B) optimizer steps.
C2_BatchSequence ==
    /\ pc = "opt_step" =>
          /\ batchOps = <<"zero_grad", "forward", "loss", "backward">>
          /\ grad = 1
    /\ pc = "log" => batchOps = <<"zero_grad", "forward", "loss", "backward", "step">>
    /\ pc = "zero_grad" => epochSteps = batch_idx /\ batchOps = <<>>
    /\ pc = "next_batch" => epochSteps = yielded
    /\ params.writer = "optimizer" => params.grads = 1
    /\ pc = "train_return" =>
          epochSteps = CeilDiv(train_len, FLAGS.train_batch_size)

C2_Witness ==
    /\ pc = "train_return"
    /\ epoch = 2
    /\ train_len = 3
    /\ FLAGS.train_batch_size = 2
    /\ epochSteps = 2
    /\ optSteps = 4

\* C3: with loss_fn "CE" every batch uses cross-entropy on integer targets,
\* with "MSE" every batch uses mean-squared-error on one-hot targets, and with
\* any other value the run performs no optimizer step.
C3_LossSelection ==
    /\ (FLAGS.loss_fn = "CE" /\ loss_ # NoLoss) =>
          loss_.fn = "CE" /\ loss_.target = "int"
    /\ (FLAGS.loss_fn = "MSE" /\ loss_ # NoLoss) =>
          loss_.fn = "MSE" /\ loss_.target = "onehot"
    /\ FLAGS.loss_fn \notin {"CE", "MSE"} =>
          optSteps = 0

\* the batch indices train() samples in an epoch of k batches
Sampled(k) == {i \in 0 .. (k - 1) : i % FLAGS.log_interval = 0}

\* C4: a progress line is printed, and its loss appended, exactly for the
\* batch indices i with i mod log_interval = 0: an epoch of K batches
\* contributes ceil(K / log_interval) samples, main() ends with
\* epochs * ceil(K / log_interval) samples in epoch-then-batch order, and
\* with log_interval > K only batch 0 of each epoch is sampled.
C4_LogSampling ==
    LET K == CeilDiv(train_len, FLAGS.train_batch_size)
        L == CeilDiv(K, FLAGS.log_interval)
        pending == IF pc \in (TrainPcs \ {"train"}) \cup {"error"} THEN tmp_loss ELSE <<>>
    IN  /\ [j \in 1 .. Len(progress) |-> progress[j].loss] = loss_values \o pending
        /\ \A j \in 1 .. Len(progress) :
              /\ progress[j].batch_idx % FLAGS.log_interval = 0
              /\ FLAGS.log_interval > K => progress[j].batch_idx = 0
        /\ pc = "next_batch" =>
              /\ {tmp_loss[j].batch_idx : j \in 1 .. Len(tmp_loss)} = Sampled(yielded)
              /\ Len(tmp_loss) = Cardinality(Sampled(yielded))
              /\ \A j \in 1 .. Len(tmp_loss) : tmp_loss[j].epoch = epoch
        /\ pc = "train_return" => Len(tmp_loss) = L
        /\ pc \in AfterLoop =>
              /\ Len(loss_values) = FLAGS.epochs * L
              /\ Len(progress) = FLAGS.epochs * L
              /\ \A j \in 1 .. Len(loss_values) :
                    /\ loss_values[j].epoch = ((j - 1) \div L) + 1
                    /\ loss_values[j].batch_idx = ((j - 1) % L) * FLAGS.log_interval
                    /\ progress[j].loss = loss_values[j]

C4_Witness ==
    /\ pc = "done"
    /\ FLAGS.epochs = 2
    /\ train_len = 3
    /\ FLAGS.train_batch_size = 1
    /\ FLAGS.log_interval = 2
    /\ Len(loss_values) = 4
    /\ loss_values[4].batch_idx = 2

C4_WitnessLarge ==
    /\ pc = "done"
    /\ FLAGS.epochs = 2
    /\ train_len = 1
    /\ FLAGS.log_interval = 2
    /\ Len(loss_values) = 2

\* C5: no step of an evaluation pass changes the parameters, the gradient
\* buffers, the learning rate or the scheduler's counter; the parameters are
\* written only by the optimizer step of train() and by the checkpoint
\* restore before the loop; and whatever the evaluation reports, the loop is
\* left after exactly `epochs` epochs and scheduler steps.
C5_EvalFrame ==
    [][ /\ pc \in TestPcs => UNCHANGED <<params, grad, lr, last_epoch>>
        /\ params' # params => pc \in {"opt_step", "start"}
        /\ (params' # params /\ pc = "start") => optSteps = 0 /\ epoch = 0
        /\ pc' = "save" => epoch' = FLAGS.epochs /\ last_epoch' = FLAGS.epochs
      ]_vars

C5_Witness ==
    /\ pc = "sched"
    /\ epoch = 2
    /\ params.writer = "optimizer"
    /\ params.version = 4
    /\ report.total = 1
    /\ report.correct = 1

\* C6: the line test() prints gives as correct the number of examples of the
\* whole test set whose first maximal score is at their label, and as total
\* the size of the test set, whatever the test batch size.
C6_Accuracy ==
    pc = "test_return" =>
        /\ Len(test_set) = test_len
        /\ report.correct =
              Cardinality({i \in 1 .. test_len :
                              \A d \in Classes :
                                  /\ test_set[i].scores[d] <= test_set[i].scores[test_set[i].target]
                                  /\ d < test_set[i].target =>
                                        test_set[i].scores[d] < test_set[i].scores[test_set[i].target]})
        /\ report.total = test_len
        /\ 0 <= report.correct
        /\ report.correct <= report.total
        /\ report.pct = <<100 * report.correct, report.total>>

C6_Witness ==
    /\ pc = "test_return"
    /\ test_len = 2
    /\ FLAGS.test_batch_size = 1
    /\ report.correct = 1
    /\ report.total = 2
    /\ test_set[1].target = Argmax(test_set[1].scores)
    /\ test_set[2].target # Argmax(test_set[2].scores)

\* C7: the learning rate is FLAGS.lr * 0.7^k after k completed epochs, the
\* scheduler having stepped k times, and every optimizer step of epoch k uses
\* FLAGS.lr * 0.7^(k-1).
C7_LearningRate ==
    /\ LrIs(lr, CompletedEpochs)
    /\ last_epoch = CompletedEpochs
    /\ params.writer = "optimizer" => LrIs(params.lr, params.epoch - 1)
    /\ pc = "opt_step" => LrIs(lr, epoch - 1)

C7_Witness ==
    /\ pc = "done"
    /\ FLAGS.epochs = 2
    /\ FLAGS.lr = <<1, 10>>
    /\ lr = <<49, 1000>>
    /\ params.writer = "optimizer"
    /\ params.lr = <<7, 100>>

Entries(kind) == {i \in DOMAIN ckptLog : ckptLog[i].kind = kind}

\* C8: the checkpoint is restored at most once, exactly when a start
\* checkpoint is given, before the first epoch and the first optimizer step;
\* the parameters are saved at most once, exactly when save_model is set,
\* after the last epoch's training, evaluation and scheduler step, and what
\* is saved is the final parameter set.
C8_CheckpointOrder ==
    /\ Cardinality(Entries("restore")) <= 1
    /\ Cardinality(Entries("save")) <= 1
    /\ pc # "start" => (Entries("restore") # {} <=> Truthy(FLAGS.start_checkpoint))
    /\ \A i \in Entries("restore") :
          /\ i = 1
          /\ ckptLog[i].epoch = 0
          /\ ckptLog[i].optSteps = 0
          /\ ckptLog[i].passes = 0
    /\ \A i \in Entries("save") :
          /\ ckptLog[i].epoch = FLAGS.epochs
          /\ ckptLog[i].passes = 3 * FLAGS.epochs
          /\ ckptLog[i].optSteps = optSteps
          /\ saved = params
    /\ pc \in {"plot", "done"} => (Entries("save") # {} <=> FLAGS.save_model)
    /\ pc \notin {"plot", "done"} => Entries("save") = {}

C8_Witness ==
    /\ pc = "done"
    /\ FLAGS.epochs = 2
    /\ Len(ckptLog) = 2
    /\ ckptLog[1].kind = "restore"
    /\ ckptLog[2].kind = "save"
    /\ saved.writer = "optimizer"

\* C9: the mean loss test() reports is never negative.
C9_NonNegativeLoss ==
    report.total > 0 => report.loss[1] >= 0

\* C10: every progress line shows as examples seen batch_idx * train batch
\* size, at most the size of the training set, and as percentage
\* 100 * batch_idx / number of batches, in [0, 100).
C10_ProgressFields ==
    \A j \in 1 .. Len(progress) :
        /\ progress[j].seen = progress[j].batch_idx * FLAGS.train_batch_size
        /\ progress[j].seen <= train_len
        /\ progress[j].pct = <<100 * progress[j].batch_idx, LoaderLen>>
        /\ 0 <= progress[j].pct[1]
        /\ progress[j].pct[1] < 100 * progress[j].pct[2]

====
